---- MODULE Spec2Model ----
(***************************************************************************)
(* Model of cmd/status.go of pathvector: the "status" command.             *)
(*                                                                         *)
(* Strings are sequences of one-character strings, so that ToLower,        *)
(* HasPrefix, Contains and the byte-wise "<" of Go are computed and not    *)
(* assumed.  A nil pointer is the empty sequence and a non-nil pointer a   *)
(* one-element sequence holding the pointee.                               *)
(***************************************************************************)
EXTENDS Integers, Sequences, FiniteSets, TLC

VARIABLES
    pc,                 \* position of statusCmd.Run
    realProtocolNames,  \* --real-protocol-names
    onlyBGP,            \* --bgp
    showTags,           \* --tags
    tagFilter,          \* --filter (repeatable)
    c,                  \* result of loadConfig: nil or a config
    err,                \* the err variable of Run
    warned,             \* the warning of line 65 has been logged
    namesFileRead,      \* os.ReadFile of protocols.json has been called
    protocols,          \* map[string]*templating.Protocol (nil map = empty)
    protocolStates,     \* the slice returned by bird.ParseProtocols, sorted in place
    parsed,             \* history: protocolStates as returned by the parser
    header,             \* header handed to util.PrintTable
    table,              \* rows handed to util.PrintTable
    shown               \* history: raw Name of the record behind each row of table

vars == <<pc, realProtocolNames, onlyBGP, showTags, tagFilter, c, err, warned,
          namesFileRead, protocols, protocolStates, parsed, header, table, shown>>

----------------------------------------------------------------------------
(* Bounds *)

MaxRecords == 3

MaxSortLen == 3

----------------------------------------------------------------------------
(* Strings *)

Range(s) == {s[i] : i \in 1..Len(s)}

LowerLetters == <<"a","b","c","d","e","f","g","h","i","j","k","l","m",
                  "n","o","p","q","r","s","t","u","v","w","x","y","z">>

UpperLetters == <<"A","B","C","D","E","F","G","H","I","J","K","L","M",
                  "N","O","P","Q","R","S","T","U","V","W","X","Y","Z">>

Digits == <<"0","1","2","3","4","5","6","7","8","9">>

IndexIn(s, ch) == CHOOSE i \in 1..Len(s) : s[i] = ch

UpperSet == Range(UpperLetters)

\* the byte value of every ASCII character in use; 27 stands for an escape
\* sequence, which no comparison reads
OrdTable ==
    [ch \in Range(LowerLetters) |-> 96 + IndexIn(LowerLetters, ch)] @@
    [ch \in Range(UpperLetters) |-> 64 + IndexIn(UpperLetters, ch)] @@
    [ch \in Range(Digits) |-> 47 + IndexIn(Digits, ch)] @@
    (" " :> 32) @@ ("," :> 44) @@ ("-" :> 45) @@ ("." :> 46) @@ (":" :> 58)

Ord(ch) == IF ch \in DOMAIN OrdTable THEN OrdTable[ch] ELSE 27

LowerTable == [ch \in UpperSet |-> LowerLetters[IndexIn(UpperLetters, ch)]]

\* strings.ToLower on ASCII
ToLower(s) ==
    [i \in 1..Len(s) |-> IF s[i] \in UpperSet THEN LowerTable[s[i]] ELSE s[i]]

\* strings.HasPrefix
HasPrefix(s, prefix) ==
    /\ Len(s) >= Len(prefix)
    /\ SubSeq(s, 1, Len(prefix)) = prefix

\* strings.Contains
Contains(s, substr) ==
    \E k \in 0..(Len(s) - Len(substr)) : SubSeq(s, k + 1, k + Len(substr)) = substr

\* Go's < on strings: byte-wise lexicographic
RECURSIVE StrLess(_, _)
StrLess(s, t) ==
    IF t = <<>> THEN FALSE
    ELSE IF s = <<>> THEN TRUE
    ELSE IF Ord(Head(s)) # Ord(Head(t)) THEN Ord(Head(s)) < Ord(Head(t))
    ELSE StrLess(Tail(s), Tail(t))

\* fmt.Sprintf("%d", i)
RECURSIVE FormatNat(_)
FormatNat(n) ==
    IF n < 10 THEN <<Digits[n + 1]>>
    ELSE FormatNat(n \div 10) \o <<Digits[(n % 10) + 1]>>

FormatInt(i) == IF i < 0 THEN <<"-">> \o FormatNat(0 - i) ELSE FormatNat(i)

\* strings.Join
RECURSIVE Join(_, _)
Join(elems, sep) ==
    IF elems = <<>> THEN <<>>
    ELSE IF Len(elems) = 1 THEN elems[1]
    ELSE elems[1] \o sep \o Join(Tail(elems), sep)

----------------------------------------------------------------------------
(* Prefix priority *)

prefixOrder == <<
    <<"i","n","t","e","r","n","a","l">>,
    <<"t","r","a","n","s","i","t">>,
    <<"c","o","l","l","e","c","t","o","r">>,
    <<"r","s">>,
    <<"p","e","e","r">>,
    <<"c","l","i","e","n","t">>,
    <<"d","o","w","n","s","t","r","e","a","m">> >>

\* Go indexes from 0: the index of the first prefix that matches, else len(prefixOrder)
getPrefixPriority(name) ==
    LET lowerName == ToLower(name)
        matches == {i \in 1..Len(prefixOrder) : HasPrefix(lowerName, prefixOrder[i])}
    IN  IF matches # {}
        THEN (CHOOSE i \in matches : \A k \in matches : i <= k) - 1
        ELSE Len(prefixOrder)

----------------------------------------------------------------------------
(* The comparator handed to sort.SliceStable and the sort itself *)

\* a comparator that forgets the case folding of the tie-break
lessCaseSensitive(data, i, j) ==
    LET iIsBGP == data[i].BGP # <<>>
        jIsBGP == data[j].BGP # <<>>
        priorityI == getPrefixPriority(data[i].Name)
        priorityJ == getPrefixPriority(data[j].Name)
    IN  IF ~iIsBGP /\ jIsBGP THEN TRUE
        ELSE IF iIsBGP /\ ~jIsBGP THEN FALSE
        ELSE IF ~iIsBGP /\ ~jIsBGP THEN FALSE
        ELSE IF priorityI # priorityJ THEN priorityI < priorityJ
        ELSE StrLess(data[i].Name, data[j].Name)

\* a comparator that puts BGP protocols first
lessBGPFirst(data, i, j) ==
    LET iIsBGP == data[i].BGP # <<>>
        jIsBGP == data[j].BGP # <<>>
        priorityI == getPrefixPriority(data[i].Name)
        priorityJ == getPrefixPriority(data[j].Name)
    IN  IF ~iIsBGP /\ jIsBGP THEN FALSE
        ELSE IF iIsBGP /\ ~jIsBGP THEN TRUE
        ELSE IF ~iIsBGP /\ ~jIsBGP THEN FALSE
        ELSE IF priorityI # priorityJ THEN priorityI < priorityJ
        ELSE StrLess(ToLower(data[i].Name), ToLower(data[j].Name))

\* a comparator that orders the non-BGP protocols by name as well
lessNonBGPByName(data, i, j) ==
    LET iIsBGP == data[i].BGP # <<>>
        jIsBGP == data[j].BGP # <<>>
        priorityI == getPrefixPriority(data[i].Name)
        priorityJ == getPrefixPriority(data[j].Name)
    IN  IF ~iIsBGP /\ jIsBGP THEN TRUE
        ELSE IF iIsBGP /\ ~jIsBGP THEN FALSE
        ELSE IF ~iIsBGP /\ ~jIsBGP
             THEN StrLess(ToLower(data[i].Name), ToLower(data[j].Name))
        ELSE IF priorityI # priorityJ THEN priorityI < priorityJ
        ELSE StrLess(ToLower(data[i].Name), ToLower(data[j].Name))

\* a comparator without the tie-break on the name
lessNoTieBreak(data, i, j) ==
    LET iIsBGP == data[i].BGP # <<>>
        jIsBGP == data[j].BGP # <<>>
        priorityI == getPrefixPriority(data[i].Name)
        priorityJ == getPrefixPriority(data[j].Name)
    IN  IF ~iIsBGP /\ jIsBGP THEN TRUE
        ELSE IF iIsBGP /\ ~jIsBGP THEN FALSE
        ELSE IF ~iIsBGP /\ ~jIsBGP THEN FALSE
        ELSE priorityI < priorityJ

\* a comparator without the second BGP/non-BGP test
lessNoBGPAfterTest(data, i, j) ==
    LET iIsBGP == data[i].BGP # <<>>
        jIsBGP == data[j].BGP # <<>>
        priorityI == getPrefixPriority(data[i].Name)
        priorityJ == getPrefixPriority(data[j].Name)
    IN  IF ~iIsBGP /\ jIsBGP THEN TRUE
        ELSE IF ~iIsBGP /\ ~jIsBGP THEN FALSE
        ELSE IF priorityI # priorityJ THEN priorityI < priorityJ
        ELSE StrLess(ToLower(data[i].Name), ToLower(data[j].Name))

\* func(i, j int) bool of lines 91-120, reading the slice being sorted
less(data, i, j) ==
    LET iIsBGP == data[i].BGP # <<>>
        jIsBGP == data[j].BGP # <<>>
        priorityI == getPrefixPriority(data[i].Name)
        priorityJ == getPrefixPriority(data[j].Name)
    IN  IF ~iIsBGP /\ jIsBGP THEN TRUE
        ELSE IF iIsBGP /\ ~jIsBGP THEN FALSE
        ELSE IF ~iIsBGP /\ ~jIsBGP THEN FALSE
        ELSE IF priorityI # priorityJ THEN priorityI < priorityJ
        ELSE StrLess(ToLower(data[i].Name), ToLower(data[j].Name))

Swap(data, i, j) == [data EXCEPT ![i] = data[j], ![j] = data[i]]

\* the inner loop of the insertion sort: for j := i; j > a && less(j, j-1); j--
RECURSIVE InsertBack(_, _)
InsertBack(data, j) ==
    IF j > 1 /\ less(data, j, j - 1)
    THEN InsertBack(Swap(data, j, j - 1), j - 1)
    ELSE data

\* the outer loop: for i := a + 1; i < b; i++
RECURSIVE InsertionSort(_, _)
InsertionSort(data, i) ==
    IF i <= Len(data)
    THEN InsertionSort(InsertBack(data, i), i + 1)
    ELSE data

\* sort.SliceStable: slices of at most one block (20 elements) are sorted by
\* one insertion sort and no merge follows
SliceStable(data) == InsertionSort(data, 2)

----------------------------------------------------------------------------
(* The strings the inputs are drawn from *)

N_direct1 == <<"d","i","r","e","c","t","1">>

N_transit_a == <<"t","r","a","n","s","i","t","-","a">>

N_Peer_a == <<"P","e","e","r","-","a">>

N_peer_b == <<"p","e","e","r","-","b">>

N_Transit1 == <<"T","r","a","n","s","i","t","1">>

N_Peer_b == <<"P","e","e","r","-","b">>

N_peer_alpha == <<"p","e","e","r","-","a","l","p","h","a">>

N_Peer_Zebra == <<"P","e","e","r","-","Z","e","b","r","a">>

N_rs_c == <<"r","s","-","c">>

N_unknown_x == <<"u","n","k","n","o","w","n","-","x">>

N_internal1 == <<"i","n","t","e","r","n","a","l","1">>

D_Direct == <<"D","i","r","e","c","t">>

D_Peer_B == <<"P","e","e","r"," ","B">>

D_Transit_A == <<"T","r","a","n","s","i","t"," ","A">>

T_core == <<"c","o","r","e">>

T_edge == <<"e","d","g","e">>

S_up == <<"u","p">>

S_Established == <<"E","s","t","a","b","l","i","s","h","e","d">>

S_down == <<"d","o","w","n">>

S_start == <<"s","t","a","r","t">>

S_Error == <<"E","r","r","o","r">>

S_Connect == <<"C","o","n","n","e","c","t">>

S_Idle == <<"I","d","l","e">>

S_Active == <<"A","c","t","i","v","e">>

S_BGP_Error == <<"B","G","P"," ","E","r","r","o","r">>

S_Connect_Error == <<"C","o","n","n","e","c","t"," ","E","r","r","o","r">>

S_Error_Connect == <<"E","r","r","o","r",":"," ","C","o","n","n","e","c","t","i","o","n"," ","r","e","f","u","s","e","d">>

S_Socket_Connect == <<"S","o","c","k","e","t",":"," ","C","o","n","n","e","c","t">>

S_upper_Up == <<"U","p">>

S_lower_error == <<"e","r","r","o","r">>

S_downtime == <<"d","o","w","n","t","i","m","e">>

S_startup == <<"s","t","a","r","t","u","p">>

S_Established_Error == <<"E","s","t","a","b","l","i","s","h","e","d"," ","E","r","r","o","r">>

Since1 == <<"2","0","2","4","-","0","1","-","0","1">>

Addr1 == <<"1","9","2",".","0",".","2",".","1">>

Dash == <<"-">>

CommaSpace == <<","," ">>

----------------------------------------------------------------------------
(* Presentation *)

Esc(code) == <<code>>

\* color.GreenString, color.RedString, color.YellowString with colours enabled:
\* the text between the SGR sequence of the colour and the reset sequence
GreenString(s) == Esc("ESC[32m") \o s \o Esc("ESC[0m")

RedString(s) == Esc("ESC[31m") \o s \o Esc("ESC[0m")

YellowString(s) == Esc("ESC[33m") \o s \o Esc("ESC[0m")

\* a colouring that tests the in-progress rule before the failure rule
colorStatusConnectFirst(s) ==
    IF s = S_up \/ s = S_Established THEN GreenString(s)
    ELSE IF Contains(s, S_Connect) \/ s = S_start THEN YellowString(s)
    ELSE IF Contains(s, S_Error) \/ s = S_down THEN RedString(s)
    ELSE s

colorStatus(s) ==
    IF s = S_up \/ s = S_Established THEN GreenString(s)
    ELSE IF Contains(s, S_Error) \/ s = S_down THEN RedString(s)
    ELSE IF Contains(s, S_Connect) \/ s = S_start THEN YellowString(s)
    ELSE s

parseTableInt(i) == IF i = -1 THEN <<>> ELSE FormatInt(i)

\* a filter whose comparison is negated
containsAnyNotEqual(a, b) ==
    \E i \in 1..Len(a) : \E j \in 1..Len(b) : a[i] # b[j]

containsAny(a, b) ==
    \E i \in 1..Len(a) : \E j \in 1..Len(b) : a[i] = b[j]

\* the name and tags looked up in the protocol JSON (lines 136-142)
LookupName(protocolState) ==
    IF protocolState.Name \in DOMAIN protocols
    THEN protocols[protocolState.Name].Name
    ELSE protocolState.Name

LookupTags(protocolState) ==
    IF protocolState.Name \in DOMAIN protocols
    THEN protocols[protocolState.Name].Tags
    ELSE <<>>

\* the row of lines 145-157
Row(protocolState) ==
    LET neighborAS == IF protocolState.BGP # <<>>
                      THEN parseTableInt(protocolState.BGP[1].NeighborAS)
                      ELSE Dash
        neighborAddr == IF protocolState.BGP # <<>>
                        THEN protocolState.BGP[1].NeighborAddress
                        ELSE Dash
        row == << LookupName(protocolState),
                  neighborAS,
                  neighborAddr,
                  colorStatus(protocolState.State),
                  parseTableInt(protocolState.Routes.Imported),
                  parseTableInt(protocolState.Routes.Exported),
                  protocolState.Since,
                  colorStatus(protocolState.Info) >>
    IN  IF showTags THEN Append(row, Join(LookupTags(protocolState), CommaSpace)) ELSE row

\* a row builder whose BGP-only test is inverted
RowShownNonBGPOnly(protocolState) ==
    /\ (~onlyBGP \/ protocolState.BGP = <<>>)
    /\ (Len(tagFilter) = 0 \/ containsAny(tagFilter, LookupTags(protocolState)))

\* the two conditions of lines 129 and 144 under which a row is appended
RowShown(protocolState) ==
    /\ (~onlyBGP \/ protocolState.BGP # <<>>)
    /\ (Len(tagFilter) = 0 \/ containsAny(tagFilter, LookupTags(protocolState)))

\* the loop of lines 127-162; each element pairs the row with the raw Name of
\* the record it was built from
RECURSIVE BuildTable(_, _, _)
BuildTable(states, k, acc) ==
    IF k > Len(states) THEN acc
    ELSE IF RowShown(states[k])
         THEN BuildTable(states, k + 1,
                         Append(acc, [name |-> states[k].Name, row |-> Row(states[k])]))
         ELSE BuildTable(states, k + 1, acc)

Header ==
    LET h == <<"Peer", "AS", "Neighbor", "State", "In", "Out", "Since", "Info">>
    IN  IF showTags THEN Append(h, "Tags") ELSE h

----------------------------------------------------------------------------
(* Inputs *)

BGPNil == <<>>

BGPPeer == <<[NeighborAddress |-> Addr1, NeighborAS |-> 65000]>>

ProtocolState(name, bgp, state, info) ==
    [Name |-> name, State |-> state, Since |-> Since1, Info |-> info,
     Routes |-> IF bgp = <<>> THEN [Imported |-> -1, Exported |-> -1]
                ELSE [Imported |-> 12, Exported |-> 0],
     BGP |-> bgp]

\* every protocol name may belong to a BGP session or to another protocol
RecordsOf(names) ==
    {ProtocolState(n, b, S_up, IF b = <<>> THEN <<>> ELSE S_Established) :
        n \in names, b \in {BGPNil, BGPPeer}}

\* the sequences of at most n records with pairwise distinct names
SeqsOf(records, n) ==
    {s \in UNION {[1..k -> records] : k \in 0..n} :
        \A i, j \in 1..Len(s) : i # j => s[i].Name # s[j].Name}

RunNames == {N_direct1, N_transit_a, N_Peer_a, N_peer_b}

SortNames == {N_direct1, N_transit_a, N_Transit1, N_peer_b, N_Peer_b, N_peer_alpha,
              N_Peer_Zebra, N_rs_c, N_unknown_x, N_internal1}

\* the scenario: direct1 (not BGP), then transit-a, peer-b, rs-c, unknown-x
Scenario ==
    << ProtocolState(N_direct1, BGPNil, S_up, <<>>),
       ProtocolState(N_transit_a, BGPPeer, S_up, S_Established),
       ProtocolState(N_peer_b, BGPPeer, S_up, S_Established),
       ProtocolState(N_rs_c, BGPPeer, S_up, S_Established),
       ProtocolState(N_unknown_x, BGPPeer, S_up, S_Established) >>

Statuses == {<<>>, S_up, S_Established, S_down, S_start, S_Error, S_Connect, S_Idle,
             S_Active, S_BGP_Error, S_Connect_Error, S_Error_Connect, S_Socket_Connect,
             S_upper_Up, S_lower_error, S_downtime, S_startup, S_Established_Error}

TagFilters == {<<>>, <<T_edge>>, <<T_edge, T_core>>}

\* contents of /etc/bird/protocols.json: an empty object, or entries for three
\* of the four names
NamesA ==
    (N_direct1 :> [Name |-> D_Direct, Tags |-> <<T_core>>]) @@
    (N_peer_b :> [Name |-> D_Peer_B, Tags |-> <<T_core, T_edge>>]) @@
    (N_transit_a :> [Name |-> D_Transit_A, Tags |-> <<>>])

NamesFiles == {<<>>, NamesA}

Config == <<[BIRDSocket |-> "/run/bird/bird.ctl"]>>

----------------------------------------------------------------------------
(* statusCmd.Run *)

Init ==
    /\ pc = "loadConfig"
    /\ realProtocolNames \in BOOLEAN
    /\ onlyBGP \in BOOLEAN
    /\ showTags \in BOOLEAN
    /\ tagFilter \in TagFilters
    /\ c = <<>>
    /\ err = "nil"
    /\ warned = FALSE
    /\ namesFileRead = FALSE
    /\ protocols = <<>>
    /\ protocolStates = <<>>
    /\ parsed = <<>>
    /\ header = <<>>
    /\ table = <<>>
    /\ shown = <<>>

\* lines 63-66: a failed load is logged and the run goes on; the pointer
\* loadConfig returns beside the error may be nil or not
LoadConfig ==
    /\ pc = "loadConfig"
    /\ \/ /\ c' = Config
          /\ err' = "nil"
          /\ warned' = FALSE
       \/ /\ c' \in {<<>>, Config}
          /\ err' = "config"
          /\ warned' = TRUE
    /\ pc' = "runCommand"
    /\ UNCHANGED <<realProtocolNames, onlyBGP, showTags, tagFilter, namesFileRead,
                   protocols, protocolStates, parsed, header, table, shown>>

\* lines 68-71: c.BIRDSocket is evaluated first and panics on a nil c
RunCommand ==
    /\ pc = "runCommand"
    /\ \/ /\ c = <<>>
          /\ pc' = "panic"
          /\ err' = err
       \/ /\ c # <<>>
          /\ err' = "nil"
          /\ pc' = "readNames"
       \/ /\ c # <<>>
          /\ err' = "command"
          /\ pc' = "fatal"
    /\ UNCHANGED <<realProtocolNames, onlyBGP, showTags, tagFilter, c, warned,
                   namesFileRead, protocols, protocolStates, parsed, header, table, shown>>

\* lines 73-83
ReadProtocolNames ==
    /\ pc = "readNames"
    /\ \/ /\ realProtocolNames
          /\ pc' = "parse"
          /\ UNCHANGED <<err, namesFileRead, protocols>>
       \/ /\ ~realProtocolNames
          /\ namesFileRead' = TRUE
          /\ \/ /\ err' = "readFile"
                /\ pc' = "fatal"
                /\ protocols' = protocols
             \/ /\ err' = "unmarshal"
                /\ pc' = "fatal"
                /\ protocols' = protocols
             \/ /\ err' = "nil"
                /\ protocols' \in NamesFiles
                /\ pc' = "parse"
    /\ UNCHANGED <<realProtocolNames, onlyBGP, showTags, tagFilter, c, warned,
                   protocolStates, parsed, header, table, shown>>

\* a parse step that goes on with an empty result when the parser fails
ParseProtocolsUnchecked ==
    /\ pc = "parse"
    /\ \/ /\ err' = "parse"
          /\ pc' = "sort"
          /\ protocolStates' \in SeqsOf(RecordsOf(RunNames), 1)
       \/ /\ err' = "nil"
          /\ protocolStates' \in SeqsOf(RecordsOf(RunNames), MaxRecords)
          /\ pc' = "sort"
    /\ parsed' = protocolStates'
    /\ UNCHANGED <<realProtocolNames, onlyBGP, showTags, tagFilter, c, warned,
                   namesFileRead, protocols, header, table, shown>>

\* lines 85-88
ParseProtocols ==
    /\ pc = "parse"
    /\ \/ /\ err' = "parse"
          /\ pc' = "fatal"
          /\ protocolStates' = protocolStates
       \/ /\ err' = "nil"
          /\ protocolStates' \in SeqsOf(RecordsOf(RunNames), MaxRecords)
          /\ pc' = "sort"
    /\ parsed' = protocolStates'
    /\ UNCHANGED <<realProtocolNames, onlyBGP, showTags, tagFilter, c, warned,
                   namesFileRead, protocols, header, table, shown>>

\* lines 90-120
SortProtocolStates ==
    /\ pc = "sort"
    /\ protocolStates' = SliceStable(protocolStates)
    /\ pc' = "print"
    /\ UNCHANGED <<realProtocolNames, onlyBGP, showTags, tagFilter, c, err, warned,
                   namesFileRead, protocols, parsed, header, table, shown>>

\* lines 122-163
PrintTable ==
    /\ pc = "print"
    /\ header' = Header
    /\ LET built == BuildTable(protocolStates, 1, <<>>)
       IN  /\ table' = [k \in 1..Len(built) |-> built[k].row]
           /\ shown' = [k \in 1..Len(built) |-> built[k].name]
    /\ pc' = "done"
    /\ UNCHANGED <<realProtocolNames, onlyBGP, showTags, tagFilter, c, err, warned,
                   namesFileRead, protocols, protocolStates, parsed>>

Next ==
    \/ LoadConfig
    \/ RunCommand
    \/ ReadProtocolNames
    \/ ParseProtocols
    \/ SortProtocolStates
    \/ PrintTable

Spec == Init /\ [][Next]_vars

----------------------------------------------------------------------------
(* The sort alone, on a larger pool of names: the run stands at line 90 *)

SortInit ==
    /\ pc = "sort"
    /\ realProtocolNames = TRUE
    /\ onlyBGP = FALSE
    /\ showTags = FALSE
    /\ tagFilter = <<>>
    /\ c = Config
    /\ err = "nil"
    /\ warned = FALSE
    /\ namesFileRead = FALSE
    /\ protocols = <<>>
    /\ protocolStates \in SeqsOf(RecordsOf(SortNames), MaxSortLen) \cup {Scenario}
    /\ parsed = protocolStates
    /\ header = <<>>
    /\ table = <<>>
    /\ shown = <<>>

SortNext == SortProtocolStates

SpecSort == SortInit /\ [][SortNext]_vars

(* The row of one protocol, over the State and Info values: the run stands
   at line 122 *)

ColorInit ==
    /\ pc = "print"
    /\ realProtocolNames = TRUE
    /\ onlyBGP = FALSE
    /\ showTags = FALSE
    /\ tagFilter = <<>>
    /\ c = Config
    /\ err = "nil"
    /\ warned = FALSE
    /\ namesFileRead = FALSE
    /\ protocols = <<>>
    /\ \E state \in Statuses, info \in Statuses :
          protocolStates = <<ProtocolState(N_peer_b, BGPPeer, state, info)>>
    /\ parsed = protocolStates
    /\ header = <<>>
    /\ table = <<>>
    /\ shown = <<>>

ColorNext == PrintTable

SpecColor == ColorInit /\ [][ColorNext]_vars

----------------------------------------------------------------------------
(* Vocabulary of the properties *)

Names(states) == [k \in 1..Len(states) |-> states[k].Name]

\* the parsed record of a given name (names are unique within one response)
RecordOf(name) == CHOOSE r \in Range(parsed) : r.Name = name

Pos(s, x) == CHOOSE k \in 1..Len(s) : s[k] = x

IsBGP(r) == r.BGP # <<>>

Sorted == pc \in {"print", "done"}

\* the resolved tag set of a record
ResolvedTags(r) ==
    IF ~realProtocolNames /\ r.Name \in DOMAIN protocols
    THEN Range(protocols[r.Name].Tags)
    ELSE {}

PassesTagFilter(r) == tagFilter = <<>> \/ ResolvedTags(r) \cap Range(tagFilter) # {}

PassesBGPOnly(r) == onlyBGP => IsBGP(r)

PassesFilters(r) == PassesTagFilter(r) /\ PassesBGPOnly(r)

\* the priority as the claim words it
ClaimedPriority(name) ==
    LET n == ToLower(name)
    IN  IF HasPrefix(n, <<"i","n","t","e","r","n","a","l">>) THEN 0
        ELSE IF HasPrefix(n, <<"t","r","a","n","s","i","t">>) THEN 1
        ELSE IF HasPrefix(n, <<"c","o","l","l","e","c","t","o","r">>) THEN 2
        ELSE IF HasPrefix(n, <<"r","s">>) THEN 3
        ELSE IF HasPrefix(n, <<"p","e","e","r">>) THEN 4
        ELSE IF HasPrefix(n, <<"c","l","i","e","n","t">>) THEN 5
        ELSE IF HasPrefix(n, <<"d","o","w","n","s","t","r","e","a","m">>) THEN 6
        ELSE 7

\* (priority, lower-cased Name) of r1 is not greater than that of r2
PairLeq(r1, r2) ==
    \/ ClaimedPriority(r1.Name) < ClaimedPriority(r2.Name)
    \/ /\ ClaimedPriority(r1.Name) = ClaimedPriority(r2.Name)
       /\ ~StrLess(ToLower(r2.Name), ToLower(r1.Name))

\* the class of a rendered cell, read off its leading SGR sequence
ClassOf(cell) ==
    IF cell # <<>> /\ Head(cell) = "ESC[32m" THEN "success"
    ELSE IF cell # <<>> /\ Head(cell) = "ESC[31m" THEN "failure"
    ELSE IF cell # <<>> /\ Head(cell) = "ESC[33m" THEN "in-progress"
    ELSE "unstyled"

\* the class the claim gives a value
ClaimedClass(s) ==
    IF s \in {S_up, S_Established} THEN "success"
    ELSE IF s = S_down \/ Contains(s, S_Error) THEN "failure"
    ELSE IF s = S_start \/ Contains(s, S_Connect) THEN "in-progress"
    ELSE "unstyled"

----------------------------------------------------------------------------
(* C1: in the rendered table every non-BGP record that is shown comes before
   every BGP record that is shown, whatever the order of the daemon's report
   and whatever the flags. *)
C1_NonBGPBeforeBGP ==
    pc = "done" =>
        \A i, j \in 1..Len(shown) :
            (~IsBGP(RecordOf(shown[i])) /\ IsBGP(RecordOf(shown[j]))) =>
                (i < j /\ table[i][3] = Dash /\ table[j][3] # Dash)

C1_Witness ==
    /\ pc = "done"
    /\ \E i, j \in 1..Len(parsed) :
          /\ i < j
          /\ IsBGP(parsed[i]) /\ ~IsBGP(parsed[j])
          /\ parsed[i].Name \in Range(shown) /\ parsed[j].Name \in Range(shown)

(* C2: the sort keeps the non-BGP records in the order in which the parser
   returned them, whatever their names. *)
C2_NonBGPStable ==
    Sorted =>
        \A i, j \in 1..Len(parsed) :
            (i < j /\ ~IsBGP(parsed[i]) /\ ~IsBGP(parsed[j])) =>
                Pos(protocolStates, parsed[i]) < Pos(protocolStates, parsed[j])

C2_Witness ==
    /\ pc = "print"
    /\ \E i, j, k \in 1..Len(parsed) :
          /\ k < i /\ i < j
          /\ IsBGP(parsed[k]) /\ ~IsBGP(parsed[i]) /\ ~IsBGP(parsed[j])
          /\ StrLess(ToLower(parsed[j].Name), ToLower(parsed[i].Name))

(* C3: among the BGP records the sorted output is ordered by ascending prefix
   priority (0-based index of the first matching prefix, 7 when none
   matches) and then by the lower-cased Name; the scenario direct1,
   transit-a, peer-b, rs-c, unknown-x comes out as direct1, transit-a, rs-c,
   peer-b, unknown-x. *)
C3_BGPOrder ==
    Sorted =>
        /\ \A k \in 1..(Len(protocolStates) - 1) :
              (IsBGP(protocolStates[k]) /\ IsBGP(protocolStates[k + 1])) =>
                  PairLeq(protocolStates[k], protocolStates[k + 1])
        /\ \A i, j \in 1..Len(protocolStates) :
              (/\ IsBGP(protocolStates[i]) /\ IsBGP(protocolStates[j])
               /\ ClaimedPriority(protocolStates[i].Name) < 7
               /\ ClaimedPriority(protocolStates[j].Name) = 7) => i < j
        /\ parsed = Scenario =>
              Names(protocolStates) =
                  <<N_direct1, N_transit_a, N_rs_c, N_peer_b, N_unknown_x>>

C3_Witness ==
    /\ pc = "print"
    /\ parsed = Scenario
    /\ protocolStates # parsed

(* C4: with a non-empty filter tag set a record is rendered only if its
   resolved tag set shares a tag with the filter set; with an empty filter
   tag set the tag filter removes no record. *)
C4_TagFilter ==
    pc = "done" =>
        /\ tagFilter # <<>> =>
              \A k \in 1..Len(shown) :
                  ResolvedTags(RecordOf(shown[k])) \cap Range(tagFilter) # {}
        /\ tagFilter = <<>> =>
              shown = Names(SelectSeq(protocolStates, PassesBGPOnly))

C4_Witness ==
    /\ pc = "done"
    /\ ~onlyBGP
    /\ tagFilter = <<T_edge>>
    /\ \E r \in Range(parsed) : r.Name \in Range(shown)
    /\ \E r \in Range(parsed) :
          /\ r.Name \notin Range(shown)
          /\ ResolvedTags(r) # {}

(* C5: with --bgp no rendered row belongs to a record without a BGP field;
   without --bgp the BGP-only filter removes no record. *)
C5_BGPOnly ==
    pc = "done" =>
        /\ onlyBGP =>
              \A k \in 1..Len(shown) :
                  IsBGP(RecordOf(shown[k])) /\ table[k][3] # Dash
        /\ ~onlyBGP =>
              shown = Names(SelectSeq(protocolStates, PassesTagFilter))

C5_Witness ==
    /\ pc = "done"
    /\ onlyBGP
    /\ Len(shown) >= 1
    /\ \E r \in Range(parsed) : ~IsBGP(r) /\ PassesTagFilter(r)

(* C6: when the configuration load fails the run logs a warning and goes on
   with name resolution disabled: it does not abort, it does not read the
   name-mapping file, and every rendered row shows the raw protocol
   identifier. *)
C6_ConfigFailureDisablesNames ==
    warned =>
        /\ pc # "panic"
        /\ ~namesFileRead
        /\ pc = "done" => \A k \in 1..Len(table) : table[k][1] = shown[k]

(* C7: all or nothing.  When the daemon command, the reading or decoding of
   the name-mapping file, or the parsing fails, the run ends at that step
   and no row is emitted; rows are emitted only after all three have
   succeeded, and then every record that passes the filters has its row. *)
C7_AllOrNothing ==
    /\ [](/\ err \in {"command", "readFile", "unmarshal", "parse"} =>
                (pc = "fatal" /\ table = <<>> /\ header = <<>>)
          /\ pc \in {"fatal", "panic"} => (table = <<>> /\ header = <<>>)
          /\ (table # <<>> \/ header # <<>>) =>
                (pc = "done" /\ err = "nil" /\ (realProtocolNames \/ namesFileRead))
          /\ pc = "done" =>
                /\ shown = Names(SelectSeq(protocolStates, PassesFilters))
                /\ Len(table) = Len(shown)
                /\ Range(protocolStates) = Range(parsed))
    /\ [][pc \notin {"fatal", "panic", "done"}]_vars

C7_Witness ==
    /\ pc = "fatal"
    /\ err = "parse"
    /\ namesFileRead

(* C8 as claimed: two BGP records with distinct Names and the same prefix
   priority never compare equal in both directions. *)
C8_TotalOnDistinctNames ==
    Sorted => \A i, j \in 1..Len(protocolStates) :
        (/\ IsBGP(protocolStates[i]) /\ IsBGP(protocolStates[j])
         /\ protocolStates[i].Name # protocolStates[j].Name
         /\ ClaimedPriority(protocolStates[i].Name) =
                ClaimedPriority(protocolStates[j].Name)) =>
            (less(protocolStates, i, j) \/ less(protocolStates, j, i))

(* C8 as amended: two BGP records with the same prefix priority whose Names
   differ after lower-casing are ordered strictly, in exactly one direction;
   two BGP records whose Names differ only in letter case compare equal in
   both directions. *)
C8_TotalUpToCase ==
    Sorted => \A i, j \in 1..Len(protocolStates) :
        (IsBGP(protocolStates[i]) /\ IsBGP(protocolStates[j])) =>
            /\ (/\ ToLower(protocolStates[i].Name) # ToLower(protocolStates[j].Name)
                /\ ClaimedPriority(protocolStates[i].Name) =
                       ClaimedPriority(protocolStates[j].Name)) =>
                  (less(protocolStates, i, j) # less(protocolStates, j, i))
            /\ ToLower(protocolStates[i].Name) = ToLower(protocolStates[j].Name) =>
                  (~less(protocolStates, i, j) /\ ~less(protocolStates, j, i))

C8_Witness ==
    /\ pc = "print"
    /\ \E i, j \in 1..Len(protocolStates) :
          /\ IsBGP(protocolStates[i]) /\ IsBGP(protocolStates[j])
          /\ protocolStates[i].Name = N_peer_b
          /\ protocolStates[j].Name = N_peer_alpha
    /\ \E i, j \in 1..Len(protocolStates) :
          /\ IsBGP(protocolStates[i]) /\ IsBGP(protocolStates[j])
          /\ protocolStates[i].Name = N_peer_b
          /\ protocolStates[j].Name = N_Peer_b

(* C9: filtering the parsed sequence and then sorting gives the sequence the
   run renders, which sorts first and filters afterwards. *)
C9_FilterSortCommute ==
    pc = "done" =>
        shown = Names(SliceStable(SelectSeq(parsed, RowShown)))

C9_Witness ==
    /\ pc = "done"
    /\ Len(shown) >= 2
    /\ Len(shown) < Len(parsed)
    /\ shown # Names(SelectSeq(parsed, RowShown))

(* C10: the colouring of State and Info takes the first rule that matches,
   in the order success, failure, in-progress, and leaves every other value
   unstyled; a value with both "Error" and "Connect" in it is a failure. *)
C10_ColorFirstMatch ==
    pc = "done" =>
        \A k \in 1..Len(table) :
            LET r == RecordOf(shown[k])
            IN  /\ ClassOf(table[k][4]) = ClaimedClass(r.State)
                /\ ClassOf(table[k][8]) = ClaimedClass(r.Info)
                /\ ClaimedClass(r.State) = "unstyled" => table[k][4] = r.State
                /\ (Contains(r.Info, S_Error) /\ Contains(r.Info, S_Connect)) =>
                      ClassOf(table[k][8]) = "failure"

C10_Witness ==
    /\ pc = "done"
    /\ Len(table) = 1
    /\ parsed[1].State = S_Connect_Error
    /\ parsed[1].Info = S_Error_Connect
    /\ ClassOf(table[1][4]) = "failure"

====
